---- MODULE Spec2Model ----
(***************************************************************************)
(* Telehealth assistant (src/app.py): reference-data lookups, the severity *)
(* classifier, the report diagnoser and the CSV history log.               *)
(*                                                                         *)
(* Strings whose characters matter (disease names, the numeric text a      *)
(* regular expression captures) are sequences of one-character strings.    *)
(* A report text is a sequence of chunks: a word chunk stands for a        *)
(* literal word or separator of the text, a numeric chunk for a run of     *)
(* characters of the class [0-9.]; adjacent numeric chunks are adjacent in *)
(* the text and are captured together.                                     *)
(***************************************************************************)
EXTENDS Integers, Sequences, FiniteSets, TLC

VARIABLES
    symptom_df,    \* dataset.csv as loaded: rows [Disease, cells]
    desc_df,       \* symptom_Description.csv: rows [Disease, Description]
    prec_df,       \* symptom_precaution.csv: rows [Disease, cells]
    severity_map,  \* symptom -> weight
    hist_file,     \* patient_history.csv on disk
    run,           \* what the last run of the script rendered, and the widget state
    uploaded,      \* the file uploader's image, held as the text OCR extracts from it
    sess,          \* two sessions inside save_history (concurrent use)
    ghost          \* bookkeeping for the concurrent schedules

reference == <<symptom_df, desc_df, prec_df, severity_map>>

vars == <<symptom_df, desc_df, prec_df, severity_map, hist_file, run, uploaded, sess, ghost>>

(***************************************************************************)
(* Bounds of the model.                                                    *)
(***************************************************************************)
MaxTextLen == 3
MaxRows == 2
MaxHistory == 2
MaxPrior == 1
MaxWeight == 8

(***************************************************************************)
(* Characters.                                                             *)
(***************************************************************************)
Digits == <<"0", "1", "2", "3", "4", "5", "6", "7", "8", "9">>

IsDigit(c) == \E i \in DOMAIN Digits : Digits[i] = c

DigitVal(c) == (CHOOSE i \in DOMAIN Digits : Digits[i] = c) - 1

\* str() of a non-negative int.
RECURSIVE IntToStr(_)
IntToStr(n) ==
    IF n < 10 THEN <<Digits[n + 1]>>
    ELSE IntToStr(n \div 10) \o <<Digits[(n % 10) + 1]>>

\* Code points of the characters disease names are written with.
Ord(c) ==
    CASE c = "0" -> 48 [] c = "7" -> 55
      [] c = "A" -> 65 [] c = "D" -> 68 [] c = "E" -> 69 [] c = "G" -> 71
      [] c = "R" -> 82
      [] c = "c" -> 99 [] c = "e" -> 101 [] c = "f" -> 102 [] c = "l" -> 108
      [] c = "n" -> 110 [] c = "u" -> 117

\* Python's order on str: lexicographic by code point, a proper prefix first.
RECURSIVE StrLess(_, _)
StrLess(a, b) ==
    IF b = <<>> THEN FALSE
    ELSE IF a = <<>> THEN TRUE
    ELSE IF Ord(Head(a)) # Ord(Head(b)) THEN Ord(Head(a)) < Ord(Head(b))
    ELSE StrLess(Tail(a), Tail(b))

(***************************************************************************)
(* Report text and the three regular expressions of diagnose_from_text.    *)
(***************************************************************************)
Word(w) == [w |-> w, cs |-> <<>>]
Num(cs) == [w |-> "", cs |-> cs]

IsNumChunk(t) == t.cs # <<>>

\* The character class [:\s].
IsSepChunk(t) == t.w \in {":", " ", "\n", "\t"}

\* str.lower() on one chunk; digits, dots and separators have no case.
LowerWord(w) ==
    CASE w = "Hemoglobin" -> "hemoglobin"
      [] w = "HEMOGLOBIN" -> "hemoglobin"
      [] w = "WBC" -> "wbc"
      [] w = "Glucose" -> "glucose"
      [] w = "Blood Sugar" -> "blood sugar"
      [] OTHER -> w

lower(text) == [i \in DOMAIN text |-> [w |-> LowerWord(text[i].w), cs |-> text[i].cs]]

\* [:\s]* from position i: the first position that holds no separator.
RECURSIVE SkipSeps(_, _)
SkipSeps(text, i) ==
    IF i <= Len(text) /\ IsSepChunk(text[i]) THEN SkipSeps(text, i + 1) ELSE i

\* ([\d\.]+) from position j, greedy: every numeric character that follows.
RECURSIVE NumRun(_, _)
NumRun(text, j) ==
    IF j <= Len(text) /\ IsNumChunk(text[j])
    THEN text[j].cs \o NumRun(text, j + 1)
    ELSE <<>>

\* keyword[:\s]*([\d\.]+) matches with the keyword at position i.
MatchAt(kws, text, i) ==
    /\ text[i].w \in kws
    /\ NumRun(text, SkipSeps(text, i + 1)) # <<>>

\* re.search: the leftmost match, or None.
re_search(kws, text) ==
    LET hits == {i \in DOMAIN text : MatchAt(kws, text, i)}
    IN  IF hits = {}
        THEN [found |-> FALSE, group |-> <<>>]
        ELSE LET i == CHOOSE m \in hits : \A o \in hits : m <= o
             IN  [found |-> TRUE, group |-> NumRun(text, SkipSeps(text, i + 1))]

RECURSIVE CountDots(_)
CountDots(cs) ==
    IF cs = <<>> THEN 0
    ELSE (IF Head(cs) = "." THEN 1 ELSE 0) + CountDots(Tail(cs))

RECURSIVE DigitsValue(_, _)
DigitsValue(cs, acc) ==
    IF cs = <<>> THEN acc
    ELSE IF Head(cs) = "." THEN DigitsValue(Tail(cs), acc)
    ELSE DigitsValue(Tail(cs), 10 * acc + DigitVal(Head(cs)))

\* The characters of cs before its first dot, and those after it.
RECURSIVE IntPart(_)
IntPart(cs) ==
    IF cs = <<>> \/ Head(cs) = "." THEN <<>> ELSE <<Head(cs)>> \o IntPart(Tail(cs))

RECURSIVE FracPart(_)
FracPart(cs) ==
    IF cs = <<>> THEN <<>>
    ELSE IF Head(cs) = "." THEN Tail(cs)
    ELSE FracPart(Tail(cs))

\* float() on characters of [0-9.]: at most one dot and at least one digit,
\* otherwise ValueError. The value is kept as its decimal digits, whole part
\* and fraction.
float(cs) ==
    IF CountDots(cs) <= 1 /\ Len(cs) - CountDots(cs) >= 1
    THEN [ok |-> TRUE, whole |-> IntPart(cs), frac |-> FracPart(cs)]
    ELSE [ok |-> FALSE, whole |-> <<>>, frac |-> <<>>]

(***************************************************************************)
(* Reference Store: the loaded frames and the helpers over them.           *)
(***************************************************************************)
\* A blank cell of a frame (pandas NaN).
NaN == "<NaN>"

Range(f) == {f[i] : i \in DOMAIN f}

RECURSIVE dropna(_)
dropna(cells) ==
    IF cells = <<>> THEN <<>>
    ELSE IF Head(cells) = NaN THEN dropna(Tail(cells))
    ELSE <<Head(cells)>> \o dropna(Tail(cells))

\* sorted() of a set of str.
RECURSIVE sorted(_)
sorted(S) ==
    IF S = {} THEN <<>>
    ELSE LET m == CHOOSE x \in S : \A y \in S \ {x} : StrLess(x, y)
         IN  <<m>> \o sorted(S \ {m})

\* The rows of frame df whose Disease column equals disease, in frame order.
RowsOf(df, disease) == SelectSeq(df, LAMBDA r : r.Disease = disease)

all_diseases == sorted({symptom_df[i].Disease : i \in DOMAIN symptom_df})

get_symptoms(disease) ==
    LET row == RowsOf(symptom_df, disease)
    IN  IF row # <<>> THEN dropna(row[1].cells) ELSE <<>>

get_description(disease) ==
    LET row == RowsOf(desc_df, disease)
    IN  IF row # <<>> THEN row[1].Description ELSE ""

get_precautions(disease) ==
    LET row == RowsOf(prec_df, disease)
    IN  IF row # <<>> THEN dropna(row[1].cells) ELSE <<>>

\* dict.get(key, default)
Get(map, key, default) == IF key \in DOMAIN map THEN map[key] ELSE default

(***************************************************************************)
(* Severity Classifier.                                                    *)
(***************************************************************************)
SevereMin == 7
ModerateMin == 4

\* A faulty variant: the thresholds taken as strict.
severity_level_strict(symptom) ==
    LET s == Get(severity_map, symptom, 0)
    IN  IF s > SevereMin THEN <<"red", "Severe">>
        ELSE IF s > ModerateMin THEN <<"orange", "Moderate">>
        ELSE <<"green", "Mild">>

severity_level(symptom) ==
    LET s == Get(severity_map, symptom, 0)
    IN  IF s >= SevereMin THEN <<"red", "Severe">>
        ELSE IF s >= ModerateMin THEN <<"orange", "Moderate">>
        ELSE <<"green", "Mild">>

(***************************************************************************)
(* Symptom Normalizer and Report Diagnoser.                                *)
(***************************************************************************)
SYMPTOM_SYNONYMS ==
    [s \in {"fever", "fatigue", "weakness", "pallor", "frequent_urination",
            "excessive_thirst"} |->
        CASE s = "fever" -> <<"high_fever">>
          [] s = "fatigue" -> <<"lethargy">>
          [] s = "weakness" -> <<"weakness_in_limbs">>
          [] s = "pallor" -> <<"pallor">>
          [] s = "frequent_urination" -> <<"frequent_urination">>
          [] s = "excessive_thirst" -> <<"excessive_thirst">>]

HbLow == 13
WbcHigh == 11000
SugarHigh == 140

RECURSIVE StripZeros(_)
StripZeros(ds) ==
    IF ds # <<>> /\ Head(ds) = "0" THEN StripZeros(Tail(ds)) ELSE ds

\* The whole number written with the digits d (no leading zero) against n,
\* which has len digits: -1, 0 or 1. More digits means greater; the value is
\* computed only for as many digits as n has.
CompareDigits(d, len, n) ==
    IF Len(d) > len THEN 1
    ELSE IF Len(d) < len THEN -1
    ELSE IF DigitsValue(d, 0) > n THEN 1
    ELSE IF DigitsValue(d, 0) < n THEN -1
    ELSE 0

CompareWhole(ds, n) == CompareDigits(StripZeros(ds), Len(IntToStr(n)), n)

IsPositive(ds) == \E i \in DOMAIN ds : ds[i] # "0"

\* float(group) < n and float(group) > n, n a whole number, on the decimal value.
FloatBelow(v, n) == CompareWhole(v.whole, n) < 0

AboveWhen(c, frac) == c > 0 \/ (c = 0 /\ IsPositive(frac))

FloatAbove(v, n) == AboveWhen(CompareWhole(v.whole, n), v.frac)

\* A faulty variant: a hemoglobin of exactly 13 triggers too.
HbRuleInclusive(v) ==
    IF ~FloatAbove(v, HbLow) THEN <<"fatigue", "weakness", "pallor">> ELSE <<>>

HbRule(v) == IF FloatBelow(v, HbLow) THEN <<"fatigue", "weakness", "pallor">> ELSE <<>>

WbcRule(v) == IF FloatAbove(v, WbcHigh) THEN <<"fever">> ELSE <<>>

SugarRule(v) ==
    IF FloatAbove(v, SugarHigh) THEN <<"frequent_urination", "excessive_thirst">> ELSE <<>>

\* normalized: every detected symptom through the synonym table, flattened.
\* Only set(normalized) is used, so the order of list(set(detected)) is immaterial.
Normalize(detected) ==
    UNION {Range(Get(SYMPTOM_SYNONYMS, s, <<s>>)) : s \in detected}

\* A faulty variant: the score counts the matching cells of the row, repeats included.
RECURSIVE ScoreLoopCells(_, _, _)
ScoreLoopCells(ds, normalized, acc) ==
    IF ds = <<>> THEN acc
    ELSE LET shared == SelectSeq(get_symptoms(Head(ds)), LAMBDA c : c \in normalized)
         IN  ScoreLoopCells(Tail(ds), normalized,
                            IF shared # <<>>
                            THEN Append(acc, [d |-> Head(ds), score |-> Len(shared)])
                            ELSE acc)

\* The loop over all_diseases; disease_scores keeps its insertion order.
RECURSIVE ScoreLoop(_, _, _)
ScoreLoop(ds, normalized, acc) ==
    IF ds = <<>> THEN acc
    ELSE LET overlap == normalized \cap Range(get_symptoms(Head(ds)))
         IN  ScoreLoop(Tail(ds), normalized,
                       IF overlap # {}
                       THEN Append(acc, [d |-> Head(ds), score |-> Cardinality(overlap)])
                       ELSE acc)

\* The rule of one marker: "hb", "wbc" or "sugar".
Rule(marker, v) ==
    CASE marker = "hb" -> HbRule(v)
      [] marker = "wbc" -> WbcRule(v)
      [] marker = "sugar" -> SugarRule(v)

\* `if m and float(m.group(..)) <cmp> n: detected += ...` with float's value v.
Accumulate(st, marker, v) ==
    IF ~v.ok THEN [st EXCEPT !.exc = "ValueError"]
    ELSE [st EXCEPT !.detected = @ \o Rule(marker, v)]

\* One marker's statement pair, from the state st the statements before it left;
\* nothing runs after an exception.
MarkerStep(st, marker, m) ==
    IF st.exc # "none" \/ ~m.found THEN st ELSE Accumulate(st, marker, float(m.group))

\* Lines 96-108: detected = list(set(detected)), a list in no particular order,
\* held as a set; then the scores.
Finish(st, detected) ==
    IF st.exc # "none"
    THEN [exc |-> st.exc, detected |-> {}, disease_scores |-> <<>>]
    ELSE [exc |-> "none",
          detected |-> detected,
          disease_scores |-> ScoreLoop(all_diseases, Normalize(detected), <<>>)]

Finish3(st) == Finish(st, Range(st.detected))

Markers(text) ==
    Finish3(MarkerStep(
                MarkerStep(
                    MarkerStep([exc |-> "none", detected |-> <<>>],
                               "hb", re_search({"hemoglobin"}, text)),
                    "wbc", re_search({"wbc"}, text)),
                "sugar", re_search({"glucose", "blood sugar"}, text)))

\* diagnose_from_text: the returned pair, or the exception float() raises.
diagnose_from_text(text) == Markers(lower(text))

\* A faulty variant: the last of the keys with the greatest score.
RECURSIVE MaxLast(_, _)
MaxLast(items, best) ==
    IF items = <<>> THEN best
    ELSE MaxLast(Tail(items),
                 IF Head(items).score >= best.score THEN Head(items) ELSE best)

\* max(diseases, key=diseases.get): the first key, in insertion order, whose
\* score no other exceeds.
RECURSIVE MaxFirst(_, _)
MaxFirst(items, best) ==
    IF items = <<>> THEN best
    ELSE MaxFirst(Tail(items),
                  IF Head(items).score > best.score THEN Head(items) ELSE best)

BestDisease(disease_scores) == MaxFirst(Tail(disease_scores), Head(disease_scores)).d

(***************************************************************************)
(* History Log: patient_history.csv through pandas.                        *)
(***************************************************************************)
IsIntText(cs) == cs # <<>> /\ \A i \in DOMAIN cs : IsDigit(cs[i])

StrCell(s) == [int |-> FALSE, v |-> 0, s |-> s]
IntCell(v) == [int |-> TRUE, v |-> v, s |-> <<>>]

\* A faulty variant: the first data row taken for the header and lost.
read_csv_headerless(rows) ==
    IF rows = <<>> THEN <<>> ELSE [i \in 1..(Len(rows) - 1) |-> StrCell(rows[i + 1])]

\* pd.read_csv of the one-column file: the column's type is inferred from all
\* of its rows; a column in which every row is an integer is read as integers.
read_csv(rows) ==
    IF rows # <<>> /\ \A i \in DOMAIN rows : IsIntText(rows[i])
    THEN [i \in DOMAIN rows |-> IntCell(DigitsValue(rows[i], 0))]
    ELSE [i \in DOMAIN rows |-> StrCell(rows[i])]

\* DataFrame.to_csv(index=False): one row of text per cell.
to_csv(df) == [i \in DOMAIN df |-> IF df[i].int THEN IntToStr(df[i].v) ELSE df[i].s]

\* What opening and parsing the file raises, if anything.
ReadError(f) ==
    IF ~f.readable THEN "PermissionError"
    ELSE IF ~f.parsable THEN "EmptyDataError"
    ELSE "none"

\* save_history: the exception it ends with ("none": it returned) and the file
\* it leaves.
SaveTo(f, disease) ==
    LET record == <<StrCell(disease)>>
        df == IF f.exists THEN read_csv(f.rows) \o record ELSE record
    IN  IF f.exists /\ ReadError(f) # "none"
        THEN [exc |-> ReadError(f), file |-> f]
        ELSE IF ~f.writable
        THEN [exc |-> "PermissionError", file |-> f]
        ELSE [exc |-> "none",
              file |-> [exists |-> TRUE, readable |-> TRUE, writable |-> TRUE,
                        parsable |-> TRUE, rows |-> to_csv(df)]]

save_history(disease) == SaveTo(hist_file, disease)

(***************************************************************************)
(* One run of the script, top to bottom: the four tabs in order. An        *)
(* uncaught exception ends the run; what was rendered before it stays.     *)
(***************************************************************************)
\* The selectbox's value when there is nothing to select.
None == <<>>

NoScan == [detected |-> {}, scores |-> <<>>, best |-> None]

\* with tabs[0]: the detail of the selected disease and the Save Lookup button;
\* saved is what save_history did, when it was called.
Detail(disease, symptoms, save, saved) ==
    [exc |-> saved.exc,
     file |-> saved.file,
     shown |-> {"search", "detail"}
               \cup (IF save /\ saved.exc = "none" THEN {"saved"} ELSE {}),
     chips |-> [i \in DOMAIN symptoms |-> <<symptoms[i]>> \o severity_level(symptoms[i])],
     description |-> get_description(disease),
     precautions |-> get_precautions(disease),
     scan |-> NoScan]

NoDetail ==
    [exc |-> "none", file |-> hist_file, shown |-> {"search"}, chips |-> <<>>,
     description |-> "", precautions |-> <<>>, scan |-> NoScan]

SearchTab(disease, save) ==
    IF disease = None THEN NoDetail
    ELSE Detail(disease, get_symptoms(disease), save,
                IF save THEN save_history(disease)
                ELSE [exc |-> "none", file |-> hist_file])

\* with tabs[1] and with tabs[2]: each reads the file when it exists. r is the
\* run so far; nothing is rendered after an exception.
ReadTab(r, tab, err) ==
    IF err # "none" THEN [r EXCEPT !.exc = err]
    ELSE [r EXCEPT !.shown = @ \cup tab]

HistoryTab(r, tab) ==
    IF r.exc # "none" THEN r
    ELSE ReadTab(r, tab, IF r.file.exists THEN ReadError(r.file) ELSE "none")

\* Extract & Diagnose: d is what diagnose_from_text did.
ScanResult(r, d) ==
    IF d.exc # "none" THEN [r EXCEPT !.exc = d.exc]
    ELSE [r EXCEPT !.shown = @ \cup {"scan"},
                   !.scan = [detected |-> d.detected,
                             scores |-> d.disease_scores,
                             best |-> IF d.disease_scores # <<>>
                                      THEN BestDisease(d.disease_scores) ELSE None]]

\* with tabs[3]: the uploader, and the scan when the button was pressed.
ScanTab(r, scan, text) ==
    IF r.exc # "none" THEN r
    ELSE IF scan THEN ScanResult([r EXCEPT !.shown = @ \cup {"uploader"}],
                                 diagnose_from_text(text))
    ELSE [r EXCEPT !.shown = @ \cup {"uploader"}]

\* What is kept of a run: the widget state and what was rendered.
Rendered(action, disease, text, r) ==
    [file |-> r.file,
     view |-> [action |-> action,
               disease |-> disease,
               text |-> text,
               exc |-> r.exc,
               shown |-> r.shown,
               chips |-> r.chips,
               description |-> r.description,
               precautions |-> r.precautions,
               detected |-> r.scan.detected,
               scores |-> r.scan.scores,
               best |-> r.scan.best,
               before |-> hist_file]]

Script(action, disease, save, scan, text) ==
    Rendered(action, disease, text,
             ScanTab(HistoryTab(HistoryTab(SearchTab(disease, save), {"insights"}),
                                {"history"}),
                     scan, text))

\* What the selectbox can hold: one of get_close_matches' results, which are
\* drawn from all_diseases, or nothing (an empty query, no match).
SelectOptions == Range(all_diseases) \cup {None}

\* The user types a query and selects a result.
Search ==
    /\ \E disease \in SelectOptions : run' = Script("search", disease, FALSE, FALSE, <<>>).view
    /\ UNCHANGED <<reference, hist_file, uploaded, sess, ghost>>

\* The user presses Save Lookup, which the last run rendered under the detail.
SaveLookup ==
    /\ "detail" \in run.shown
    /\ Len(hist_file.rows) < MaxPrior + MaxHistory
    /\ \E done \in {Script("save", run.disease, TRUE, FALSE, <<>>)} :
          /\ run' = done.view
          /\ hist_file' = done.file
    /\ UNCHANGED <<reference, uploaded, sess, ghost>>

NoUpload == [present |-> FALSE, text |-> <<>>]

\* The user uploads an image in the fourth tab, which the last run rendered.
Upload(text) ==
    /\ "uploader" \in run.shown
    /\ uploaded' = [present |-> TRUE, text |-> text]
    /\ run' = Script("upload", run.disease, FALSE, FALSE, <<>>).view
    /\ UNCHANGED <<reference, hist_file, sess, ghost>>

\* The user presses Extract & Diagnose, which the last run rendered under the
\* uploaded image; the OCR collaborator returns the image's text.
ScanDiagnose ==
    /\ "uploader" \in run.shown
    /\ uploaded.present
    /\ run' = Script("scan", run.disease, FALSE, TRUE, uploaded.text).view
    /\ UNCHANGED <<reference, hist_file, uploaded, sess, ghost>>

(***************************************************************************)
(* Two sessions of the server inside save_history at once: the existence   *)
(* test, the read and the rewrite are separate steps and nothing locks.    *)
(***************************************************************************)
Sessions == {1, 2}

IdleSession == [pc |-> "idle", disease |-> None, df |-> <<>>]

\* Line 63-65: the record is built and os.path.exists is evaluated.
Begin(i) ==
    /\ sess[i].pc = "idle"
    /\ \E disease \in Range(all_diseases) :
          sess' = [sess EXCEPT ![i] =
                      [pc |-> IF hist_file.exists THEN "read" ELSE "write",
                       disease |-> disease,
                       df |-> <<StrCell(disease)>>]]
    /\ ghost' = [ghost EXCEPT !.overlap =
                    @ \/ \E j \in Sessions \ {i} : sess[j].pc \in {"read", "write"}]
    /\ UNCHANGED <<reference, hist_file, run, uploaded>>

\* Line 66: pd.concat([pd.read_csv(HISTORY_FILE), df]).
Read(i) ==
    /\ sess[i].pc = "read"
    /\ sess' = [sess EXCEPT ![i].pc = "write",
                            ![i].df = read_csv(hist_file.rows) \o @]
    /\ UNCHANGED <<reference, hist_file, run, uploaded, ghost>>

\* Line 67: df.to_csv(HISTORY_FILE, index=False) replaces the file.
Write(i) ==
    /\ sess[i].pc = "write"
    /\ hist_file' = [hist_file EXCEPT !.exists = TRUE, !.rows = to_csv(sess[i].df)]
    /\ sess' = [sess EXCEPT ![i].pc = "done"]
    /\ UNCHANGED <<reference, run, uploaded, ghost>>

(***************************************************************************)
(* Inputs.                                                                 *)
(***************************************************************************)
Acne == <<"A", "c", "n", "e">>
GERD == <<"G", "E", "R", "D">>
Flu == <<"f", "l", "u">>
N07 == <<"0", "7">>

DiseaseNames == {Acne, GERD, Flu, N07}

CellChoices ==
    { <<"pallor", "lethargy", "pallor", NaN>>,
      <<"high_fever", NaN, "excessive_thirst">>,
      <<"fatigue", "fever">>,
      <<"cough", NaN>> }

Row(d, cells) == [Disease |-> d, cells |-> cells]

\* Sequences over S of length at most n.
RECURSIVE SeqsUpTo(_, _)
SeqsUpTo(S, n) ==
    IF n = 0 THEN {<<>>}
    ELSE LET shorter == SeqsUpTo(S, n - 1)
         IN  shorter \cup {Append(q, x) : q \in shorter, x \in S}

\* read_csv leaves the Disease column a column of str only when some name in
\* it is no number (or the frame is empty).
LoadsAsStr(df) == df = <<>> \/ \E i \in DOMAIN df : ~IsIntText(df[i].Disease)

StoreFamily ==
    {df \in SeqsUpTo({Row(d, c) : d \in DiseaseNames, c \in CellChoices}, MaxRows) :
        LoadsAsStr(df)}

ClinicDataset ==
    << Row(GERD, <<"high_fever", "excessive_thirst", NaN>>),
       Row(Acne, <<"pallor", "lethargy", NaN>>),
       Row(N07, <<"cough", "pallor">>),
       Row(Flu, <<"high_fever", "cough", NaN>>) >>

SmallDataset ==
    << Row(Flu, <<"weakness_in_limbs", "frequent_urination">>),
       Row(Acne, <<"fatigue", "weakness", "fever">>),
       Row(Acne, <<"pallor">>) >>

SampleDatasets == {ClinicDataset, SmallDataset}

DescFrame ==
    << [Disease |-> Acne, Description |-> "a skin condition"],
       [Disease |-> GERD, Description |-> "acid reflux"] >>

PrecFrame ==
    << [Disease |-> Acne, cells |-> <<"bath twice", NaN, "drink plenty of water">>],
       [Disease |-> Flu, cells |-> <<"rest", NaN>>] >>

DefaultSeverity ==
    [s \in {"pallor", "lethargy", "high_fever", "excessive_thirst"} |->
        CASE s = "pallor" -> 3 [] s = "lethargy" -> 2
          [] s = "high_fever" -> 7 [] s = "excessive_thirst" -> 5]

SeveritySymptoms == {"pallor", "high_fever"}

SeverityMaps == UNION {[D -> 0..MaxWeight] : D \in SUBSET SeveritySymptoms}

\* The chunks short report texts are written with.
Chunks ==
    { Word("Hemoglobin"), Word("wbc"), Word("glucose"), Word("Blood Sugar"),
      Word(":"), Word("mg"),
      Num(<<"1", "0">>), Num(<<"1", "3">>), Num(<<"1", "4", "0">>),
      Num(<<"1", "5", "0">>), Num(<<"1", "1", "0", "0", "0">>),
      Num(<<"1", "2", "0", "0", "0">>), Num(<<".">>) }

ShortTexts == SeqsUpTo(Chunks, MaxTextLen)

\* "Hemoglobin: 10 WBC: 12000 Glucose: 150"
ExampleReport ==
    << Word("Hemoglobin"), Word(":"), Word(" "), Num(<<"1", "0">>), Word(" "),
       Word("WBC"), Word(":"), Word(" "), Num(<<"1", "2", "0", "0", "0">>), Word(" "),
       Word("Glucose"), Word(":"), Word(" "), Num(<<"1", "5", "0">>) >>

SampleReports ==
    { ExampleReport,
      << Word("no markers here") >>,
      \* "hemoglobin 10 wbc 11000 glucose 140"
      << Word("hemoglobin"), Word(" "), Num(<<"1", "0">>), Word(" "),
         Word("wbc"), Word(" "), Num(<<"1", "1", "0", "0", "0">>), Word(" "),
         Word("glucose"), Word(" "), Num(<<"1", "4", "0">>) >>,
      \* "Hemoglobin: 12.9 WBC 11000.5"
      << Word("Hemoglobin"), Word(":"), Word(" "), Num(<<"1", "2">>), Num(<<".">>),
         Num(<<"9">>), Word(" "), Word("WBC"), Word(" "),
         Num(<<"1", "1", "0", "0", "0">>), Num(<<".", "5">>) >>,
      \* "hemoglobin 10 wbc . glucose 150"
      << Word("hemoglobin"), Word(" "), Num(<<"1", "0">>), Word(" "),
         Word("wbc"), Word(" "), Num(<<".">>), Word(" "),
         Word("glucose"), Word(" "), Num(<<"1", "5", "0">>) >>,
      \* "wbc 12000 blood sugar: 150"
      << Word("wbc"), Word(" "), Num(<<"1", "2", "0", "0", "0">>), Word(" "),
         Word("Blood Sugar"), Word(":"), Word(" "), Num(<<"1", "5", "0">>) >>,
      \* "hemoglobin mg hemoglobin 10 hemoglobin 14"
      << Word("hemoglobin"), Word(" "), Word("mg"), Word(" "), Word("hemoglobin"),
         Word(" "), Num(<<"1", "0">>), Word(" "), Word("hemoglobin"), Word(" "),
         Num(<<"1", "4">>) >>,
      \* "glucose 1.2.3"
      << Word("glucose"), Word(" "), Num(<<"1", ".", "2">>), Num(<<".", "3">>) >>,
      \* "hemoglobin 14 glucose 150"
      << Word("hemoglobin"), Word(" "), Num(<<"1", "4">>), Word(" "),
         Word("glucose"), Word(" "), Num(<<"1", "5", "0">>) >> }

\* The reports a user's session uploads.
SessionReports ==
    { ExampleReport,
      << Word("no markers here") >>,
      << Word("hemoglobin"), Word(" "), Num(<<"1", "0">>), Word(" "),
         Word("wbc"), Word(" "), Num(<<".">>) >> }

AbsentFile ==
    [exists |-> FALSE, readable |-> TRUE, writable |-> TRUE, parsable |-> TRUE,
     rows |-> <<>>]

\* The files n or fewer saves leave, starting with no file.
RECURSIVE LogsAfter(_)
LogsAfter(n) ==
    IF n = 0 THEN {AbsentFile}
    ELSE LET earlier == LogsAfter(n - 1)
         IN  earlier \cup {SaveTo(f, d).file : f \in earlier, d \in DiseaseNames}

\* The file as the process finds it: one an earlier process left, possibly in
\* a directory or with permissions that forbid writing or reading, or
\* truncated to nothing.
InitialFiles ==
    LET left == LogsAfter(MaxPrior)
    IN  left
        \cup {[f EXCEPT !.writable = FALSE] : f \in left}
        \cup {[f EXCEPT !.readable = FALSE] : f \in left \ {AbsentFile}}
        \cup {[exists |-> TRUE, readable |-> TRUE, writable |-> TRUE,
               parsable |-> FALSE, rows |-> <<>>]}

(***************************************************************************)
(* Specifications.                                                         *)
(***************************************************************************)
Loaded(datasets, maps, files, uploads) ==
    /\ symptom_df \in datasets
    /\ desc_df = DescFrame
    /\ prec_df = PrecFrame
    /\ severity_map \in maps
    /\ hist_file \in files
    /\ uploaded \in uploads
    /\ run = Script("load", None, FALSE, FALSE, <<>>).view
    /\ sess = [i \in Sessions |-> IdleSession]
    /\ ghost = [len0 |-> Len(hist_file.rows), overlap |-> FALSE]

Images(texts) == {[present |-> TRUE, text |-> t] : t \in texts}

\* A user's session: search, save, upload, scan.
Init == Loaded(SampleDatasets, {DefaultSeverity}, InitialFiles, {NoUpload})

UploadReport == \E text \in SessionReports : Upload(text)

Next == Search \/ SaveLookup \/ UploadReport \/ ScanDiagnose

Spec == Init /\ [][Next]_vars

\* Report scans of every short text and of the sample reports.
InitScan ==
    Loaded({ClinicDataset}, {DefaultSeverity}, {AbsentFile},
           Images(ShortTexts \cup SampleReports))

SpecScan == InitScan /\ [][ScanDiagnose]_vars

\* Report scans against every small reference dataset.
InitScore == Loaded(StoreFamily, {DefaultSeverity}, {AbsentFile}, Images(SampleReports))

SpecScore == InitScore /\ [][ScanDiagnose]_vars

\* Detail views under every small severity table.
SeverityDataset ==
    << Row(Acne, <<"pallor", "cough", NaN>>),
       Row(Flu, <<"high_fever", "pallor", "cough">>),
       Row(GERD, <<"high_fever">>) >>

InitSeverity == Loaded({SeverityDataset}, SeverityMaps, {AbsentFile}, {NoUpload})

SpecSeverity == InitSeverity /\ [][Search]_vars

\* Two sessions saving at once.
InitConcurrent ==
    Loaded({ClinicDataset}, {DefaultSeverity}, LogsAfter(MaxPrior), {NoUpload})

NextConcurrent == \E i \in Sessions : Begin(i) \/ Read(i) \/ Write(i)

SpecConcurrent == InitConcurrent /\ [][NextConcurrent]_vars

(***************************************************************************)
(* Properties.                                                             *)
(***************************************************************************)
Returned(action) == run.action = action /\ run.exc = "none"

IsPrefix(p, q) == Len(p) <= Len(q) /\ \A i \in DOMAIN p : p[i] = q[i]

\* C1: after save_history(d) returns, reading the log yields the entries read
\* before it, unchanged and in order, followed by the one new entry d; with no
\* file before, the log read is exactly [d].
C1_AppendKeepsEntries ==
    Returned("save") =>
        read_csv(hist_file.rows) =
            (IF run.before.exists THEN read_csv(run.before.rows) ELSE <<>>)
                \o <<StrCell(run.disease)>>

\* C2: the detected set diagnose_from_text returns is the canonical one: it
\* never holds the raw tokens fatigue, weakness or fever, and for hemoglobin 10,
\* WBC 12000, glucose 150 it is {lethargy, weakness_in_limbs, pallor,
\* high_fever, frequent_urination, excessive_thirst}.
C2_DetectedIsCanonical ==
    Returned("scan") =>
        /\ run.detected \cap {"fatigue", "weakness", "fever"} = {}
        /\ run.text = ExampleReport =>
              run.detected = {"lethargy", "weakness_in_limbs", "pallor", "high_fever",
                              "frequent_urination", "excessive_thirst"}

\* C3: diagnose_from_text raises for no text; a marker whose captured
\* characters are no number counts as absent.
C3_NeverRaises == run.action = "scan" => run.exc = "none"

\* C4: the detected symptoms are exactly {fatigue, weakness, pallor} when the
\* first hemoglobin value is below 13, {fever} when the first wbc value is above
\* 11000 and {frequent_urination, excessive_thirst} when the first glucose or
\* blood-sugar value is above 140, each rule on its own; 13, 11000 and 140
\* themselves trigger nothing; nothing is detected exactly when no rule
\* triggered, and then the scores are empty too.
C4_First(kws) == re_search(kws, lower(run.text))

C4_Low(kws, n) == C4_First(kws).found /\ FloatBelow(float(C4_First(kws).group), n)

C4_High(kws, n) == C4_First(kws).found /\ FloatAbove(float(C4_First(kws).group), n)

C4_ThresholdRules ==
    Returned("scan") =>
        /\ run.detected =
              (IF C4_Low({"hemoglobin"}, 13) THEN {"fatigue", "weakness", "pallor"} ELSE {})
              \cup (IF C4_High({"wbc"}, 11000) THEN {"fever"} ELSE {})
              \cup (IF C4_High({"glucose", "blood sugar"}, 140)
                    THEN {"frequent_urination", "excessive_thirst"} ELSE {})
        /\ run.detected = {} <=>
              ~(\/ C4_Low({"hemoglobin"}, 13)
                \/ C4_High({"wbc"}, 11000)
                \/ C4_High({"glucose", "blood sugar"}, 140))
        /\ run.detected = {} => run.scores = <<>>

\* C4 witness: a report with hemoglobin 10, wbc exactly 11000 and glucose
\* exactly 140 was scanned and only the hemoglobin rule triggered.
C4_Witness ==
    /\ Returned("scan")
    /\ run.detected = {"fatigue", "weakness", "pallor"}
    /\ C4_First({"wbc"}).group = <<"1", "1", "0", "0", "0">>
    /\ C4_First({"glucose", "blood sugar"}).group = <<"1", "4", "0">>

\* C5: the keys of the scores are exactly the diseases whose symptom list
\* shares an identifier with the canonical detected set, each once, and each
\* score is the number of distinct shared identifiers, between 1 and the size
\* of the canonical set.
C5_Canonical ==
    {c \in {"lethargy", "weakness_in_limbs", "pallor", "high_fever",
            "frequent_urination", "excessive_thirst"} :
        \/ c = "lethargy" /\ "fatigue" \in run.detected
        \/ c = "weakness_in_limbs" /\ "weakness" \in run.detected
        \/ c = "high_fever" /\ "fever" \in run.detected
        \/ c \in {"pallor", "frequent_urination", "excessive_thirst"} /\ c \in run.detected}

C5_Shared(d) == C5_Canonical \cap Range(get_symptoms(d))

C5_OverlapScores ==
    Returned("scan") =>
        /\ {run.scores[i].d : i \in DOMAIN run.scores} =
              {d \in {symptom_df[i].Disease : i \in DOMAIN symptom_df} : C5_Shared(d) # {}}
        /\ \A i, j \in DOMAIN run.scores : run.scores[i].d = run.scores[j].d => i = j
        /\ \A i \in DOMAIN run.scores :
              /\ run.scores[i].score = Cardinality(C5_Shared(run.scores[i].d))
              /\ run.scores[i].score >= 1
              /\ run.scores[i].score <= Cardinality(C5_Canonical)

\* C5 witness: a scan scored two diseases, one of them on two shared symptoms
\* of a row that lists one of them twice.
C5_Witness ==
    /\ Returned("scan")
    /\ Len(run.scores) = 2
    /\ \E i \in DOMAIN run.scores :
          /\ run.scores[i].score = 2
          /\ Len(get_symptoms(run.scores[i].d)) = 3

\* C6: a chip's tier follows its symptom's weight: 7 or more red/Severe, 4 to 6
\* orange/Moderate, less than 4 green/Mild, a symptom absent from the table
\* counting as weight 0; a symptom of greater weight never has a lower tier.
C6_Weight(chip) == IF chip[1] \in DOMAIN severity_map THEN severity_map[chip[1]] ELSE 0

C6_Rank(chip) == CASE chip[3] = "Severe" -> 2 [] chip[3] = "Moderate" -> 1 [] chip[3] = "Mild" -> 0

C6_SeverityTiers ==
    /\ \A i \in DOMAIN run.chips :
          LET chip == run.chips[i]
              w == C6_Weight(chip)
          IN  /\ w >= 7 => chip[2] = "red" /\ chip[3] = "Severe"
              /\ (w >= 4 /\ w < 7) => chip[2] = "orange" /\ chip[3] = "Moderate"
              /\ w < 4 => chip[2] = "green" /\ chip[3] = "Mild"
    /\ \A i, j \in DOMAIN run.chips :
          C6_Weight(run.chips[i]) <= C6_Weight(run.chips[j]) =>
              C6_Rank(run.chips[i]) <= C6_Rank(run.chips[j])

\* C6 witness: a detail view shows a symptom of weight 7 as Severe, one of
\* weight 6 as Moderate and one that the table lacks as Mild.
C6_Witness ==
    /\ Returned("search")
    /\ \E i, j, k \in DOMAIN run.chips :
          /\ C6_Weight(run.chips[i]) = 7 /\ run.chips[i][3] = "Severe"
          /\ C6_Weight(run.chips[j]) = 6 /\ run.chips[j][3] = "Moderate"
          /\ run.chips[k][1] \notin DOMAIN severity_map /\ run.chips[k][3] = "Mild"

\* C7: a failure to write or read the history file is not fatal: Save Lookup
\* ends without an uncaught exception, and the search and the detail are
\* rendered in that run and in every later one.
C7_SaveFailureNotFatal ==
    /\ run.action = "save" => run.exc = "none"
    /\ "search" \in run.shown
    /\ run.disease # None => "detail" \in run.shown

\* C8: when both sessions have returned from save_history the log is one or
\* two entries longer than before, and two entries longer whenever neither call
\* began while the other was under way.
C8_BothDone == \A i \in Sessions : sess[i].pc = "done"

C8_SequentialKeepsBoth ==
    C8_BothDone =>
        /\ Len(hist_file.rows) \in {ghost.len0 + 1, ghost.len0 + 2}
        /\ ~ghost.overlap => Len(hist_file.rows) = ghost.len0 + 2

\* C8 witness: both calls returned, having overlapped, and the log grew by one
\* entry only.
C8_LostUpdate ==
    /\ C8_BothDone
    /\ ghost.overlap
    /\ Len(hist_file.rows) = ghost.len0 + 1

\* C9: the best disease has the greatest score; the scores are in the sorted
\* order of the disease names, and of the diseases with the greatest score
\* the best is the least in that order.
C9_BestIsFirstMax ==
    Returned("scan") =>
        /\ run.scores = <<>> => run.best = None
        /\ \A i, j \in DOMAIN run.scores : i < j => StrLess(run.scores[i].d, run.scores[j].d)
        /\ run.scores # <<>> =>
              \E b \in DOMAIN run.scores :
                  /\ run.scores[b].d = run.best
                  /\ \A i \in DOMAIN run.scores :
                        /\ run.scores[i].score <= run.scores[b].score
                        /\ run.scores[i].score = run.scores[b].score =>
                              (i = b \/ StrLess(run.best, run.scores[i].d))

\* C9 witness: two diseases tie at the greatest score and the one first in the
\* order was chosen.
C9_Witness ==
    /\ Returned("scan")
    /\ Len(run.scores) >= 2
    /\ \E i, j \in DOMAIN run.scores :
          /\ i < j
          /\ run.scores[i].d = run.best
          /\ run.scores[i].score = run.scores[j].score

\* C10: the log only grows by appending: every step leaves the earlier log a
\* prefix of the later one, only Save Lookup changes the file, and no step
\* changes the reference data.
C10_LogOnlyGrows ==
    [][/\ IsPrefix(hist_file.rows, hist_file'.rows)
       /\ hist_file' # hist_file => run'.action = "save"
       /\ reference' = reference]_vars

====
